---- MODULE Spec2Model ----
(***************************************************************************)
(* Model of the darkforge data crate's SQLite backend:                     *)
(*   crates/lib/data/src/store/sql/sqlite/{store,pool,mod}.rs              *)
(*   crates/lib/data/src/store/sql/mod.rs                                  *)
(* Tasks run SqlQuery::run concurrently on stores sharing one bb8 pool     *)
(* whose manager is LibSqlConnectionManager.                               *)
(***************************************************************************)
EXTENDS Integers, Sequences, FiniteSets, TLC

\* ------------------------------------------------------------------ bounds
NumTasks == 2
MaxSize == 2
MaxConnId == 3
MaxRows == 2
MaxParams == 2
MaxTableRows == 2
MaxRuns == 2
MaxScripts == 3
MaxApplies == 3
MaxPool == 3
MaxFace == 7
MaxItems == 3
MaxCalls == 2
MaxTake == 5

Tasks == 1..NumTasks
ConnIds == 1..MaxConnId
NoConn == 0

VARIABLES
    test_on_check_out,  \* pool builder option (store.rs:157)
    max_size,           \* pool capacity
    pool,               \* the pool's shared internals
    connState,          \* per connection: Unopened / Idle / Leased / Discarded
    pc,                 \* per task: position inside run
    held,               \* per task: the PooledConnection it owns (conn)
    query,              \* per task: the SqlQuery (self) as read at store.rs:96
    vals,               \* per task: rows decoded so far
    leaseReqs,          \* per task: pool.get() calls made by this invocation
    execs,              \* per task: conn.query() calls made by this invocation
    probeFails,         \* per task: a probe failed during this invocation's get
    ret,                \* what the run that ended in the last step handed back
    pq,                 \* marshalling harness: the query descriptor
    pnative,            \* marshalling harness: the value to_params returned
    target,             \* the build's platform: byte order and pointer width
    hscalar,            \* conversion harness: the caller's native scalar
    hparam,             \* conversion harness: the Param built from it
    hvalue,             \* conversion harness: what into_value returned
    hcall,              \* query harness: the caller's sql! invocation
    db,                 \* query harness: the rows of table test, in rowid order
    qret,               \* query harness: what the last run returned
    nruns,              \* query harness: runs of the descriptor so far
    mdir,               \* migrator: the scripts of the migration directory
    mdb,                \* migrator: the database behind SqliteMigrator.db
    mret,               \* migrator: what the last apply did and returned
    droll,              \* dice: the last try_roll, its dice and its outcome
    cycle,              \* test generator: the Cycle iterator
    clog                \* test generator: what each call on it returned

vars == <<test_on_check_out, max_size, pool, connState, pc, held, query, vals,
          leaseReqs, execs, probeFails, ret, pq, pnative, target,
          hscalar, hparam, hvalue, hcall, db, qret, nruns,
          mdir, mdb, mret, droll, cycle, clog>>

config == <<test_on_check_out, max_size>>

valueVars == <<hscalar, hparam, hvalue>>
queryVars == <<hcall, db, qret, nruns>>
migrateVars == <<mdir, mdb, mret>>
rngVars == <<droll, cycle, clog>>
harnessVars == <<pq, pnative, target, valueVars, queryVars, migrateVars, rngVars>>

\* ------------------------------------------------- results and error kinds
Ok(v) == [ok |-> TRUE, val |-> v, err |-> "-"]
Err(e) == [ok |-> FALSE, val |-> <<>>, err |-> e]

\* A conversion that files decoding failures under the engine's variant.
SqliteErrorConflated(source) ==
    IF source = "RunError" THEN "Connection" ELSE "LibSql"

\* SqliteError (sqlite/mod.rs:33-48): one variant per #[from] source type.
\* The source error types are libsql::Error, bb8::RunError and serde's Error.
SqliteError(source) ==
    CASE source = "libsql::Error" -> "LibSql"
      [] source = "RunError"      -> "Connection"
      [] source = "SerdeError"    -> "Deserialization"
      [] OTHER                    -> "MigrationError"

\* ------------------------------------------------------- parameter model
\* Param (sql/mod.rs:48-87): a tag and a payload.  Every payload is a
\* sequence of numbers: an integer is its limbs of 16 bits, most significant
\* first, in two's complement for the signed tags (the 8-bit tags use one
\* limb below 256); a string is its characters; bytes and identifiers are
\* their bytes; a float is its bit pattern's limbs.
LimbBase == 256 * 256
LimbTop == LimbBase \div 2
ByteBase == 256
ByteTop == ByteBase \div 2

Param(tag, v) == [tag |-> tag, v |-> v]

\* libsql::Value
NativeNull == [kind |-> "Null", v |-> <<>>]
NativeInteger(limbs) == [kind |-> "Integer", v |-> limbs]
NativeReal(x) == [kind |-> "Real", v |-> x]
\* A text value that is handed over as a blob.
NativeTextAsBlob(s) == [kind |-> "Blob", v |-> s]
NativeText(s) == [kind |-> "Text", v |-> s]
NativeBlob(b) == [kind |-> "Blob", v |-> b]

\* `x as i64`: the payload widened to the four limbs of an i64, by sign
\* extension for the signed tags and zero extension for the unsigned ones.
RECURSIVE Fill(_, _)
Fill(n, x) == IF n = 0 THEN <<>> ELSE <<x>> \o Fill(n - 1, x)

AsI64(limbs, signed, bits) ==
    LET negative == signed /\
                    (IF bits = 8 THEN limbs[1] >= ByteTop ELSE limbs[1] >= LimbTop)
        first == IF bits = 8 /\ negative
                 THEN <<(LimbBase - ByteBase) + limbs[1]>> \o Tail(limbs)
                 ELSE limbs
    IN  Fill(4 - Len(limbs), IF negative THEN LimbBase - 1 ELSE 0) \o first

\* The platforms a build can target: byte order, and the number of limbs in
\* a pointer-width integer (two for 32 bits, four for 64).
Targets == [endian : {"little", "big"}, ptrLimbs : {2, 4}]
\* The platform the pool and query specifications are run on.
HostTarget == [endian |-> "little", ptrLimbs |-> 4]

\* to_ne_bytes: the payload's limbs as bytes in the platform's order, least
\* significant byte first on a little-endian target and most significant
\* byte first on a big-endian one.
RECURSIVE LimbsToLeBytes(_)
LimbsToLeBytes(limbs) ==
    IF limbs = <<>> THEN <<>>
    ELSE LET l == limbs[Len(limbs)]
         IN  <<l % ByteBase, l \div ByteBase>>
                 \o LimbsToLeBytes(SubSeq(limbs, 1, Len(limbs) - 1))

RECURSIVE LimbsToBeBytes(_)
LimbsToBeBytes(limbs) ==
    IF limbs = <<>> THEN <<>>
    ELSE <<Head(limbs) \div ByteBase, Head(limbs) % ByteBase>>
             \o LimbsToBeBytes(Tail(limbs))

\* A to_ne_bytes that writes most significant byte first on every platform.
to_be_bytes(limbs) == LimbsToBeBytes(limbs)

to_ne_bytes(limbs) ==
    IF target.endian = "little" THEN LimbsToLeBytes(limbs) ELSE LimbsToBeBytes(limbs)

\* IntoValue for &Param (store.rs:46-69).  The integer arms defer to libsql's
\* conversions: u64 goes through TryFrom<u64>, which refuses values above
\* i64::MAX; every other arm is infallible.
into_value(p) ==
    CASE p.tag = "Null"   -> Ok(NativeNull)
      [] p.tag = "U8"     -> Ok(NativeInteger(AsI64(p.v, FALSE, 8)))
      [] p.tag = "U16"    -> Ok(NativeInteger(AsI64(p.v, FALSE, 16)))
      [] p.tag = "U32"    -> Ok(NativeInteger(AsI64(p.v, FALSE, 32)))
      [] p.tag = "U64"    -> IF p.v[1] >= LimbTop
                             THEN Err("ToSqlConversionFailure")
                             ELSE Ok(NativeInteger(AsI64(p.v, FALSE, 64)))
      [] p.tag = "U128"   -> Ok(NativeBlob(to_ne_bytes(p.v)))
      [] p.tag = "USize"  -> Ok(NativeBlob(to_ne_bytes(p.v)))
      [] p.tag = "I8"     -> Ok(NativeInteger(AsI64(p.v, TRUE, 8)))
      [] p.tag = "I16"    -> Ok(NativeInteger(AsI64(p.v, TRUE, 16)))
      [] p.tag = "I32"    -> Ok(NativeInteger(AsI64(p.v, TRUE, 32)))
      [] p.tag = "I64"    -> Ok(NativeInteger(AsI64(p.v, TRUE, 64)))
      [] p.tag = "I128"   -> Ok(NativeBlob(to_ne_bytes(p.v)))
      [] p.tag = "ISize"  -> Ok(NativeBlob(to_ne_bytes(p.v)))
      [] p.tag = "F32"    -> Ok(NativeReal(p.v))
      [] p.tag = "F64"    -> Ok(NativeReal(p.v))
      [] p.tag = "String" -> Ok(NativeText(p.v))
      [] p.tag = "Bytes"  -> Ok(NativeBlob(p.v))
      [] p.tag = "Uuid"   -> Ok(NativeBlob(p.v))

\* Params (sql/mod.rs:89-98) and SqlQuery (sql/mod.rs:100-114)
ParamsNone == [shape |-> "None", list |-> <<>>]
ParamsPositional(list) == [shape |-> "Positional", list |-> list]
ParamsNamed(pairs) == [shape |-> "Named", list |-> pairs]

SqlQueryNew(text, params) == [query |-> text, params |-> params]

\* ------------------------------------------------- native scalars
\* A native scalar the caller converts: its Rust type and its value, in the
\* payload representation of Param.
Scalar(type, v) == [type |-> type, v |-> v]
NoScalar == Scalar("none", <<>>)
NoCall == [form |-> "none", text |-> "", args |-> <<>>]

\* A conversion table that files every type under the 64-bit signed tag.
TagOfConflated(type) == "I64"

\* implement_into_param!($param => $v) (sql/mod.rs:33-41, 116-132): the
\* Param variant each native type converts into.
TagOf(type) ==
    CASE type = "u8"      -> "U8"
      [] type = "u16"     -> "U16"
      [] type = "u32"     -> "U32"
      [] type = "u64"     -> "U64"
      [] type = "u128"    -> "U128"
      [] type = "usize"   -> "USize"
      [] type = "i8"      -> "I8"
      [] type = "i16"     -> "I16"
      [] type = "i32"     -> "I32"
      [] type = "i64"     -> "I64"
      [] type = "i128"    -> "I128"
      [] type = "isize"   -> "ISize"
      [] type = "f32"     -> "F32"
      [] type = "f64"     -> "F64"
      [] type = "String"  -> "String"
      [] type = "Uuid"    -> "Uuid"
      [] type = "Vec<u8>" -> "Bytes"

\* str::to_string: a new String holding the literal's characters, one by one.
to_string(chars) == [i \in 1..Len(chars) |-> chars[i]]

\* From<T> for Param (sql/mod.rs:116-138): the macro's impls wrap the value
\* in the variant of its type; From<&str> copies the literal into a String.
ParamFrom(s) ==
    IF s.type = "&str" THEN Param("String", to_string(s.v))
    ELSE Param(TagOf(s.type), s.v)

\* A push that puts the new element in front.
PushFront(values, v) == <<v>> \o values

\* Vec::push
Push(values, v) == Append(values, v)

\* The `for param in p.iter()` loop of to_params (store.rs:77-79): from index
\* i on, push each marshalled value; `?` returns the first failure wrapped.
RECURSIVE PositionalLoop(_, _, _)
PositionalLoop(p, i, values) ==
    IF i > Len(p) THEN Ok(ParamsPositional(values))
    ELSE LET r == into_value(p[i])
         IN  IF r.ok THEN PositionalLoop(p, i + 1, Push(values, r.val))
             ELSE Err(SqliteError("libsql::Error"))

\* The `for (k, v) in np.iter()` loop of to_params (store.rs:84-86).
RECURSIVE NamedLoop(_, _, _)
NamedLoop(np, i, named_values) ==
    IF i > Len(np) THEN Ok(ParamsNamed(named_values))
    ELSE LET r == into_value(np[i][2])
         IN  IF r.ok THEN NamedLoop(np, i + 1, Push(named_values, <<np[i][1], r.val>>))
             ELSE Err(SqliteError("libsql::Error"))

\* IntoParams::to_params for SqlQuery (store.rs:71-91)
to_params(q) ==
    CASE q.params.shape = "None"       -> Ok(ParamsNone)
      [] q.params.shape = "Positional" -> PositionalLoop(q.params.list, 1, <<>>)
      [] q.params.shape = "Named"      -> NamedLoop(q.params.list, 1, <<>>)

\* ------------------------------------------------------------ the engine
\* The statement the manager's probe issues (pool.rs:32).
ProbeStatement == "SELECT 1;"

\* Whether stepping a statement yields a row.
SelectText == "SELECT name, age FROM test WHERE id = ?"
InsertText == "INSERT INTO test (id, name, age) VALUES (:id, 'John Doe', 42);"
SelectNamedText == "SELECT name, age FROM test WHERE id = :key"
SelectAllText == "SELECT * FROM test"
InsertPositionalText == "INSERT INTO test (id, name, age) VALUES (?, 'John Doe', 42);"
ReturnsRows(stmt) ==
    stmt \in {ProbeStatement, SelectText, SelectNamedText, SelectAllText}

\* libsql's Connection::execute as called at pool.rs:32 and store.rs:166: a
\* connection that no longer responds fails; a statement that yields a row
\* is refused with ExecuteReturnedRows; otherwise the change count comes back.
\* `responds` is whether the connection answers this call.
execute(responds, stmt) ==
    IF ~responds THEN Err("SqliteFailure")
    ELSE IF ReturnsRows(stmt) THEN Err("ExecuteReturnedRows")
    ELSE Ok(0)

\* ------------------------------------------------ LibSqlConnectionManager
\* ManageConnection::is_valid (pool.rs:30-33): execute(..).map(|_| ())
is_valid(responds) ==
    LET r == execute(responds, ProbeStatement)
    IN  IF r.ok THEN Ok("unit") ELSE r

\* A manager that reports every connection broken.
has_brokenAlways(c) == TRUE

\* ManageConnection::has_broken (pool.rs:35-38)
has_broken(c) == FALSE

\* --------------------------------------------------------------- the pool
\* The bb8 pool the store leases from (store.rs:28, store.rs:95).  Its shared
\* internals: the idle queue, the open and pending connection counts, and the
\* notifier on which getters wait (a stored permit, a FIFO of waiters, and the
\* waiters already notified).
InGet(t) == pc[t] \in {"get", "waiting", "probing"}
InFlight == Cardinality({t \in Tasks : InGet(t)})

NotifyOne(p) ==
    IF p.waitq # <<>>
    THEN [p EXCEPT !.woken = @ \cup {Head(p.waitq)}, !.waitq = Tail(@)]
    ELSE [p EXCEPT !.permit = TRUE]

RECURSIVE SeqToSet(_)
SeqToSet(q) == IF q = <<>> THEN {} ELSE {Head(q)} \cup SeqToSet(Tail(q))

NotifyWaiters(p) ==
    [p EXCEPT !.woken = @ \cup SeqToSet(p.waitq), !.waitq = <<>>]

\* Approve up to n new connections while open + pending stays within max_size.
Approvals(p, n) ==
    LET room == max_size - (p.num_conns + p.pending_conns)
        num == IF room < n THEN (IF room < 0 THEN 0 ELSE room) ELSE n
    IN  [p EXCEPT !.pending_conns = @ + num]

\* A pool that notifies a getter and loses the connection.
PutLost(p, c) == NotifyOne(p)

\* A connection goes (back) into the idle queue and one getter is notified.
Put(p, c) == NotifyOne([p EXCEPT !.idle = Append(@, c)])

\* A connection leaves the pool for good.
Dropped(p) == NotifyWaiters([p EXCEPT !.num_conns = @ - 1])

\* Drop of a PooledConnection (the end of `conn`'s scope in run, store.rs:95-105):
\* the pool asks has_broken and either requeues the connection or drops it.
\* `present` is false for a connection whose probe failed.
Requeued(c, present) == present /\ ~has_broken(c)

\* A pool that closes every connection it gets back.
PutBackClosing(p, c, present) == Dropped(p)

PutBack(p, c, present) ==
    IF Requeued(c, present) THEN Put(p, c) ELSE Dropped(p)

ConnAfterPutBack(c, present) ==
    IF Requeued(c, present) THEN "Idle" ELSE "Discarded"

RemoveFromSeq(q, x) == SelectSeq(q, LAMBDA y : y # x)

\* A getter that stops waiting leaves the notifier; a notification it had
\* received and not used is passed on.
LeaveNotifier(p, t) ==
    IF t \in p.woken
    THEN NotifyOne([p EXCEPT !.woken = @ \ {t}])
    ELSE [p EXCEPT !.waitq = RemoveFromSeq(@, t)]

\* ------------------------------------------------------- inputs of a run
\* The identifier of store.rs:122 as its 16 raw bytes.
SampleUuid == <<244, 247, 127, 115, 225, 232, 66, 137,
                183, 127, 115, 225, 232, 98, 137, 224>>
\* u64 payloads: 5, and 2^63 (the least value above i64::MAX).
SmallU64 == <<0, 0, 0, 5>>
LargeU64 == <<LimbTop, 0, 0, 0>>

\* No descriptor: the task's run has not read one.
NoQuery == SqlQueryNew("", ParamsNone)

\* "John Doe" (store.rs:134), as its characters' codes.
JohnDoe == <<74, 111, 104, 110, 32, 68, 111, 101>>

RunQueries ==
    { SqlQueryNew(SelectText, ParamsPositional(<<Param("Uuid", SampleUuid)>>)),
      SqlQueryNew(InsertText, ParamsNamed(<<<<"id", Param("U64", SmallU64)>>>>)),
      SqlQueryNew(SelectText, ParamsPositional(<<Param("U64", LargeU64)>>)) }

\* The identifier of sql/mod.rs:147 as its 16 raw bytes.
TestId == <<249, 22, 140, 94, 254, 178, 79, 170,
            182, 191, 50, 155, 243, 159, 161, 228>>

\* "Jane" and "n/a" as their characters' codes.
Jane == <<74, 97, 110, 101>>
NotAvailable == <<110, 47, 97>>

\* Rows of table test (store.rs:124-131): id, name, age.  The columns'
\* affinities leave a blob, an integer id and a non-numeric text age as they
\* are.  OddRow's age is text, which the row type (store.rs:113-117) cannot
\* take as its i32.
TableRow(id, name, age) == [id |-> id, name |-> name, age |-> age]
JohnRow ==
    TableRow(NativeBlob(SampleUuid), NativeText(JohnDoe), NativeInteger(<<0, 0, 0, 42>>))
JaneRow ==
    TableRow(NativeBlob(TestId), NativeText(Jane), NativeInteger(<<0, 0, 0, 37>>))
OddRow ==
    TableRow(NativeInteger(SmallU64), NativeText(Jane), NativeText(NotAvailable))

\* The columns `SELECT name, age` yields of a table row.
Selected(row) == [name |-> row.name, age |-> row.age]

\* Rows the engine can yield to a run: one the row type decodes and one it
\* does not.
RowVals == {Selected(JohnRow), Selected(OddRow)}
RECURSIVE SeqsUpTo(_, _)
SeqsUpTo(S, n) ==
    IF n = 0 THEN {<<>>}
    ELSE LET shorter == SeqsUpTo(S, n - 1)
         IN  shorter \cup {Append(q, x) : q \in shorter, x \in S}

\* de::from_row::<T> (store.rs:100)
\* into struct Test { name: String, age: i32 } (store.rs:113-117): name must
\* be text and age an integer within i32.
FitsI32(limbs) ==
    \/ limbs[1] = 0 /\ limbs[2] = 0 /\ limbs[3] < LimbTop
    \/ limbs[1] = LimbBase - 1 /\ limbs[2] = LimbBase - 1 /\ limbs[3] >= LimbTop

from_row(row) ==
    IF row.name.kind = "Text" /\ row.age.kind = "Integer" /\ FitsI32(row.age.v)
    THEN Ok([name |-> row.name.v, age |-> SubSeq(row.age.v, 3, 4)])
    ELSE Err("SerdeError")

\* The error type each `?` of run converts from (store.rs:95, 96, 99, 100).
StepError(step) ==
    CASE step = "lease"   -> "RunError"
      [] step = "marshal" -> "libsql::Error"
      [] step = "query"   -> "libsql::Error"
      [] step = "fetch"   -> "libsql::Error"
      [] step = "decode"  -> "SerdeError"

\* What the caller gets back when a run ends, with the run's last local state.
NoRet ==
    [task |-> 0, kind |-> "none", variant |-> "-", vals |-> <<>>,
     failedStep |-> "none", conn |-> NoConn, leaseReqs |-> 0, execs |-> 0,
     probeFails |-> FALSE]

Returned(t, kind, variant, v, step) ==
    [task |-> t, kind |-> kind, variant |-> variant, vals |-> v,
     failedStep |-> step, conn |-> held[t], leaseReqs |-> leaseReqs[t],
     execs |-> execs[t], probeFails |-> probeFails[t]]

\* -------------------------------------------------------------------- Init
PoolInit ==
    /\ test_on_check_out \in BOOLEAN
    /\ max_size \in 1..MaxSize
    /\ pool = [idle |-> <<>>, num_conns |-> 0, pending_conns |-> 0,
               permit |-> FALSE, waitq |-> <<>>, woken |-> {}]
    /\ connState = [c \in ConnIds |-> "Unopened"]
    /\ pc = [t \in Tasks |-> "idle"]
    /\ held = [t \in Tasks |-> NoConn]
    /\ query = [t \in Tasks |-> NoQuery]
    /\ vals = [t \in Tasks |-> <<>>]
    /\ leaseReqs = [t \in Tasks |-> 0]
    /\ execs = [t \in Tasks |-> 0]
    /\ probeFails = [t \in Tasks |-> FALSE]
    /\ ret = NoRet

MarshalIdle ==
    /\ pq = NoQuery
    /\ pnative = [set |-> FALSE]

ValueIdle ==
    /\ hscalar = NoScalar
    /\ hparam = [set |-> FALSE]
    /\ hvalue = [set |-> FALSE]

QueryIdle ==
    /\ hcall = NoCall
    /\ db = <<>>
    /\ qret = [stage |-> "call"]
    /\ nruns = 0

\* A database file nothing has been applied to: no script recorded in the
\* migration table, none executed, no schema change made.
FreshDatabase == [recorded |-> {}, executed |-> {}, schema |-> <<>>]

MigrateIdle ==
    /\ mdir = <<>>
    /\ mdb = FreshDatabase
    /\ mret = [stage |-> "idle", n |-> 0]

RngIdle ==
    /\ droll = [rolled |-> FALSE]
    /\ cycle = [items |-> <<>>, pos |-> 1]
    /\ clog = <<>>

HarnessIdle ==
    /\ target = HostTarget
    /\ MarshalIdle
    /\ ValueIdle
    /\ QueryIdle
    /\ MigrateIdle
    /\ RngIdle

Init == PoolInit /\ HarnessIdle

\* ------------------------------------------------------- SqlQuery::run
\* The caller invokes run (store.rs:94); its first step is pool.get().  The
\* descriptor is not read before store.rs:96, where the model draws it.
Start(t) ==
    /\ pc[t] = "idle"
    /\ pc' = [pc EXCEPT ![t] = "get"]
    /\ leaseReqs' = [leaseReqs EXCEPT ![t] = 1]
    /\ ret' = NoRet
    /\ UNCHANGED <<config, pool, connState, held, query, vals, execs, probeFails>>

\* One turn of the pool's get loop: take the head of the idle queue, or ask
\* for a new connection and wait to be notified.
CanTry(t) == pc[t] = "get" \/ (pc[t] = "waiting" /\ t \in pool.woken)

\* The idle queue once its head has been handed out.
TakeIdle(idle) == Tail(idle)

TryGetLease(t) ==
    /\ CanTry(t)
    /\ pool.idle # <<>>
    /\ LET c == Head(pool.idle)
       IN  /\ pool' = [pool EXCEPT !.idle = TakeIdle(@), !.woken = @ \ {t}]
           /\ held' = [held EXCEPT ![t] = c]
           /\ connState' = [connState EXCEPT ![c] = "Leased"]
           /\ pc' = [pc EXCEPT ![t] = IF test_on_check_out THEN "probing" ELSE "leased"]
    /\ ret' = NoRet
    /\ UNCHANGED <<config, query, vals, leaseReqs, execs, probeFails>>

TryGetWait(t) ==
    /\ CanTry(t)
    /\ pool.idle = <<>>
    /\ LET p0 == [pool EXCEPT !.woken = @ \ {t}]
           p1 == Approvals(p0, IF InFlight > p0.pending_conns THEN 1 ELSE 0)
       IN  IF p1.permit
           THEN /\ pool' = [p1 EXCEPT !.permit = FALSE]
                /\ pc' = [pc EXCEPT ![t] = "get"]
           ELSE /\ pool' = [p1 EXCEPT !.waitq = Append(@, t)]
                /\ pc' = [pc EXCEPT ![t] = "waiting"]
    /\ ret' = NoRet
    /\ UNCHANGED <<config, connState, held, query, vals, leaseReqs, execs, probeFails>>

\* The pool's replenisher opens an approved connection with the manager's
\* connect (pool.rs:26-28) and queues it.
NewConn == CHOOSE c \in ConnIds : connState[c] = "Unopened" /\
               \A d \in ConnIds : connState[d] = "Unopened" => c <= d

Connect ==
    /\ pool.pending_conns > 0
    /\ \E c \in ConnIds : connState[c] = "Unopened"
    /\ LET c == NewConn
       IN  /\ pool' = Put([pool EXCEPT !.pending_conns = @ - 1, !.num_conns = @ + 1], c)
           /\ connState' = [connState EXCEPT ![c] = "Idle"]
    /\ ret' = NoRet
    /\ UNCHANGED <<config, pc, held, query, vals, leaseReqs, execs, probeFails>>

\* connect keeps failing and the replenisher gives the approval up.
ConnectFail ==
    /\ pool.pending_conns > 0
    /\ pool' = [pool EXCEPT !.pending_conns = @ - 1]
    /\ ret' = NoRet
    /\ UNCHANGED <<config, connState, pc, held, query, vals, leaseReqs, execs,
                   probeFails>>

\* is_valid resolves for the connection under checkout.  On success get
\* returns the connection (store.rs:95); on failure the connection is marked
\* invalid and dropped, and the get loop goes round again.
Probe(t, responds) ==
    /\ pc[t] = "probing"
    /\ IF is_valid(responds).ok
       THEN /\ pc' = [pc EXCEPT ![t] = "leased"]
            /\ UNCHANGED <<pool, connState, held, probeFails>>
       ELSE /\ pool' = PutBack(pool, held[t], FALSE)
            /\ connState' = [connState EXCEPT
                                ![held[t]] = ConnAfterPutBack(held[t], FALSE)]
            /\ held' = [held EXCEPT ![t] = NoConn]
            /\ probeFails' = [probeFails EXCEPT ![t] = TRUE]
            /\ pc' = [pc EXCEPT ![t] = "get"]
    /\ ret' = NoRet
    /\ UNCHANGED <<config, query, vals, leaseReqs, execs>>

\* An exit that leaves the notifier but never gives the connection back.
PoolAfterExitLeaking(t) ==
    IF pc[t] = "waiting" THEN LeaveNotifier(pool, t) ELSE pool

\* The pool as run's exit leaves it: a waiting getter leaves the notifier and
\* the PooledConnection, if the run owns one, is dropped.
PoolAfterExit(t) ==
    LET p0 == IF pc[t] = "waiting" THEN LeaveNotifier(pool, t) ELSE pool
    IN  IF held[t] # NoConn THEN PutBack(p0, held[t], TRUE) ELSE p0

ConnsAfterExit(t) ==
    IF held[t] # NoConn
    THEN [connState EXCEPT ![held[t]] = ConnAfterPutBack(held[t], TRUE)]
    ELSE connState

\* A run whose exit forgets to give its handle up.
HeldAfterExitKept(t) == held[t]

\* The handle a task is left with once its run's locals are gone.
HeldAfterExit(t) == NoConn

\* run's future is gone (it returned, or the caller dropped it): its locals,
\* `conn` among them, are dropped (store.rs:95-105).
Exit(t) ==
    /\ pc' = [pc EXCEPT ![t] = "idle"]
    /\ pool' = PoolAfterExit(t)
    /\ connState' = ConnsAfterExit(t)
    /\ held' = [held EXCEPT ![t] = HeldAfterExit(t)]
    /\ query' = [query EXCEPT ![t] = NoQuery]
    /\ vals' = [vals EXCEPT ![t] = <<>>]
    /\ leaseReqs' = [leaseReqs EXCEPT ![t] = 0]
    /\ execs' = [execs EXCEPT ![t] = 0]
    /\ probeFails' = [probeFails EXCEPT ![t] = FALSE]
    /\ UNCHANGED config

\* A run that starts over at the lease after a failed step.
AfterFailureRetry(step) == "retry"

\* Where run continues after step `step` failed: `?` returns from run.
AfterFailure(step) == "return"

\* `?` on a failed step (store.rs:95, 96, 99, 100): run returns the error
\* converted into SqliteError.
RunFail(t, step) ==
    IF AfterFailure(step) = "return"
    THEN /\ Exit(t)
         /\ ret' = Returned(t, "Err", SqliteError(StepError(step)), <<>>, step)
    ELSE /\ pc' = [pc EXCEPT ![t] = "get"]
         /\ pool' = PoolAfterExit(t)
         /\ connState' = ConnsAfterExit(t)
         /\ held' = [held EXCEPT ![t] = NoConn]
         /\ leaseReqs' = [leaseReqs EXCEPT ![t] = @ + 1]
         /\ ret' = NoRet
         /\ UNCHANGED <<config, query, vals, execs, probeFails>>

\* The pool's connection_timeout elapses while get is suspended: pool.get()
\* returns RunError::TimedOut and `?` at store.rs:95 returns it.
Timeout(t) ==
    /\ pc[t] \in {"waiting", "probing"}
    /\ RunFail(t, "lease")

\* A run that marshals while it still waits for its lease.
MarshalPointBeforeLease == "waiting"

\* Where run stands when it evaluates self.to_params() (store.rs:96): past
\* pool.get().await? (store.rs:95), with the lease in hand.
MarshalPoint == "leased"

\* store.rs:96, up to the await: self.to_params()? and then conn.query(..).
MarshalFail(t, q) ==
    /\ pc[t] = MarshalPoint
    /\ ~to_params(q).ok
    /\ RunFail(t, "marshal")

QueryCall(t, q) ==
    /\ pc[t] = MarshalPoint
    /\ to_params(q).ok
    /\ query' = [query EXCEPT ![t] = q]
    /\ pc' = [pc EXCEPT ![t] = "querying"]
    /\ execs' = [execs EXCEPT ![t] = @ + 1]
    /\ ret' = NoRet
    /\ UNCHANGED <<config, pool, connState, held, vals, leaseReqs, probeFails>>

\* conn.query(..).await resolves (store.rs:96): the engine accepts the
\* statement and hands back its row cursor, or fails it.
QueryOk(t) ==
    /\ pc[t] = "querying"
    /\ pc' = [pc EXCEPT ![t] = "fetching"]
    /\ ret' = NoRet
    /\ UNCHANGED <<config, pool, connState, held, query, vals, leaseReqs, execs,
                   probeFails>>

QueryFail(t) ==
    /\ pc[t] = "querying"
    /\ RunFail(t, "query")

\* rows.next().await? (store.rs:99) fails.
FetchFail(t) ==
    /\ pc[t] = "fetching"
    /\ RunFail(t, "fetch")

\* rows.next() yields `row` and from_row decodes it (store.rs:99-100).
FetchRow(t, row) ==
    /\ pc[t] = "fetching"
    /\ ReturnsRows(query[t].query)
    /\ Len(vals[t]) < MaxRows
    /\ from_row(row).ok
    /\ vals' = [vals EXCEPT ![t] = Push(@, from_row(row).val)]
    /\ ret' = NoRet
    /\ UNCHANGED <<config, pool, connState, pc, held, query, leaseReqs, execs,
                   probeFails>>

DecodeFail(t, row) ==
    /\ pc[t] = "fetching"
    /\ ReturnsRows(query[t].query)
    /\ Len(vals[t]) < MaxRows
    /\ ~from_row(row).ok
    /\ RunFail(t, "decode")

\* rows.next() yields None: Ok(vals) (store.rs:103).
ReturnOk(t) ==
    /\ pc[t] = "fetching"
    /\ Exit(t)
    /\ ret' = Returned(t, "Ok", "-", vals[t], "none")

\* The caller drops run's future at one of its suspension points.
Suspended(t) == pc[t] \in {"waiting", "probing", "querying", "fetching"}

Cancel(t) ==
    /\ Suspended(t)
    /\ Exit(t)
    /\ ret' = Returned(t, "Cancelled", "-", <<>>, "none")

\* -------------------------------------------------------------------- Next
Next ==
    \/ \E t \in Tasks : Start(t) /\ UNCHANGED harnessVars
    \/ \E t \in Tasks : TryGetLease(t) /\ UNCHANGED harnessVars
    \/ \E t \in Tasks : TryGetWait(t) /\ UNCHANGED harnessVars
    \/ Connect /\ UNCHANGED harnessVars
    \/ ConnectFail /\ UNCHANGED harnessVars
    \/ \E t \in Tasks, responds \in BOOLEAN : Probe(t, responds) /\ UNCHANGED harnessVars
    \/ \E t \in Tasks : Timeout(t) /\ UNCHANGED harnessVars
    \/ \E t \in Tasks, q \in RunQueries : MarshalFail(t, q) /\ UNCHANGED harnessVars
    \/ \E t \in Tasks, q \in RunQueries : QueryCall(t, q) /\ UNCHANGED harnessVars
    \/ \E t \in Tasks : QueryOk(t) /\ UNCHANGED harnessVars
    \/ \E t \in Tasks : QueryFail(t) /\ UNCHANGED harnessVars
    \/ \E t \in Tasks : FetchFail(t) /\ UNCHANGED harnessVars
    \/ \E t \in Tasks, row \in RowVals : FetchRow(t, row) /\ UNCHANGED harnessVars
    \/ \E t \in Tasks, row \in RowVals : DecodeFail(t, row) /\ UNCHANGED harnessVars
    \/ \E t \in Tasks : ReturnOk(t) /\ UNCHANGED harnessVars
    \/ \E t \in Tasks : Cancel(t) /\ UNCHANGED harnessVars

Spec == Init /\ [][Next]_vars

\* ---------------------------------------------------- fair scheduling
\* The executor polls every future that can make progress, the engine
\* answers every call, and the pool's notifier hands an idle connection to a
\* waiter that keeps asking.  Nothing obliges a caller to start a run or to
\* drop one, a timer to fire, or connect to fail.
EngineStep(t) ==
    \/ \E q \in RunQueries : MarshalFail(t, q) \/ QueryCall(t, q)
    \/ QueryOk(t)
    \/ ReturnOk(t)

Fairness ==
    /\ \A t \in Tasks : WF_vars(EngineStep(t) /\ UNCHANGED harnessVars)
    /\ \A t \in Tasks : WF_vars(TryGetWait(t) /\ UNCHANGED harnessVars)
    /\ \A t \in Tasks : SF_vars(TryGetLease(t) /\ UNCHANGED harnessVars)
    /\ \A t \in Tasks : WF_vars((\E r \in BOOLEAN : Probe(t, r)) /\ UNCHANGED harnessVars)
    /\ WF_vars(Connect /\ UNCHANGED harnessVars)

LiveSpec == Init /\ [][Next]_vars /\ Fairness

\* The pool's connection_timeout is a deadline in real time: a get that is
\* suspended again and again without obtaining its lease is ended by it.
TimerFairness ==
    \A t \in Tasks : SF_vars(Timeout(t) /\ UNCHANGED harnessVars)

TimedSpec == Init /\ [][Next]_vars /\ Fairness /\ TimerFairness

\* One run's engine call never resolves (store.rs:96, store.rs:99): nothing
\* is assumed of that run, while the executor, the engine and the pool go on
\* serving the others.
Stalled == CHOOSE t \in Tasks : \A u \in Tasks : t <= u

StallFairness ==
    /\ \A t \in Tasks \ {Stalled} : WF_vars(EngineStep(t) /\ UNCHANGED harnessVars)
    /\ \A t \in Tasks \ {Stalled} : WF_vars(TryGetWait(t) /\ UNCHANGED harnessVars)
    /\ \A t \in Tasks \ {Stalled} : SF_vars(TryGetLease(t) /\ UNCHANGED harnessVars)
    /\ \A t \in Tasks \ {Stalled} :
           WF_vars((\E r \in BOOLEAN : Probe(t, r)) /\ UNCHANGED harnessVars)
    /\ WF_vars(Connect /\ UNCHANGED harnessVars)

StallSpec == Init /\ [][Next]_vars /\ StallFairness

\* ------------------------------------------------- marshalling harness
\* to_params applied to descriptors drawn from bounded sets.
ParamSamples ==
    { Param("Null", <<>>), Param("U8", <<7>>), Param("U64", SmallU64),
      Param("U64", LargeU64), Param("String", JohnDoe) }
Names == {"key1", "key2"}
NamedSamples == {<<k, p>> : k \in Names, p \in ParamSamples}

HarnessQueries ==
    {SqlQueryNew(SelectText, ParamsNone)}
    \cup {SqlQueryNew(SelectText, ParamsPositional(l)) : l \in SeqsUpTo(ParamSamples, MaxParams)}
    \cup {SqlQueryNew(SelectText, ParamsNamed(l)) : l \in SeqsUpTo(NamedSamples, MaxParams)}

HInit ==
    /\ PoolInit
    /\ target = HostTarget
    /\ ValueIdle
    /\ QueryIdle
    /\ MigrateIdle
    /\ RngIdle
    /\ pq \in HarnessQueries
    /\ pnative = [set |-> FALSE]

\* The caller builds another descriptor (SqlQuery::new, sql/mod.rs:109-114).
HNewQuery(q) ==
    /\ pnative.set
    /\ pq' = q
    /\ pnative' = [set |-> FALSE]

\* self.to_params() (store.rs:96)
HToParams ==
    /\ ~pnative.set
    /\ pnative' = [set |-> TRUE, r |-> to_params(pq)]
    /\ pq' = pq

poolVars == <<test_on_check_out, max_size, pool, connState, pc, held, query, vals,
              leaseReqs, execs, probeFails, ret>>

HNext ==
    \/ \E q \in HarnessQueries : HNewQuery(q)
           /\ UNCHANGED <<poolVars, target, valueVars, queryVars, migrateVars, rngVars>>
    \/ HToParams /\ UNCHANGED <<poolVars, target, valueVars, queryVars, migrateVars, rngVars>>

MarshalSpec == HInit /\ [][HNext]_vars

\* ------------------------------------------------------ the sql! macro
\* A call of sql! (sql/mod.rs:19-31): its form ("text" for sql!(text),
\* "list" for sql!(text, a, b, ..), "map" for sql!(text, {k => a, ..})), the
\* text, and the arguments as (key, scalar) pairs; a list argument has no key.
Call(form, text, args) == [form |-> form, text |-> text, args |-> args]
NoKey == ""

Expanded(q) == [compiles |-> TRUE, q |-> q]
\* The expansion does not type-check: no SqlQuery is built.
Rejected == [compiles |-> FALSE, q |-> NoQuery]

\* First arm (sql/mod.rs:22-24).
SqlArmNone(text) == Expanded(SqlQueryNew(text, ParamsNone))

\* Second arm (sql/mod.rs:25-27): vec![(key.into(), param.into()), ..].
SqlArmNamed(text, args) ==
    Expanded(SqlQueryNew(text,
        ParamsNamed([i \in 1..Len(args) |-> <<args[i][1], ParamFrom(args[i][2])>>])))

\* An expansion of the list form that forgets its arguments.
SqlArmPositionalEmpty(text, args) == Expanded(SqlQueryNew(text, ParamsPositional(<<>>)))

\* Third arm (sql/mod.rs:28-30): vec![param.into(), ..].
SqlArmPositional(text, args) ==
    Expanded(SqlQueryNew(text,
        ParamsPositional([i \in 1..Len(args) |-> ParamFrom(args[i][2])])))

\* The arms are tried in order.  The second needs at least one key => value
\* pair (`+`); sql!(text, {}) falls through to the third, where {} is a
\* block expression of type (), for which Param has no From impl.
sql(call) ==
    CASE call.form = "text" -> SqlArmNone(call.text)
      [] call.form = "map" /\ Len(call.args) >= 1 -> SqlArmNamed(call.text, call.args)
      [] call.form = "map" /\ Len(call.args) = 0 -> Rejected
      [] call.form = "list" -> SqlArmPositional(call.text, call.args)

\* ------------------------------------------------- the engine's statements
\* The parameter markers of each statement text, by parameter index.
Markers(text) ==
    CASE text \in {SelectText, InsertPositionalText} -> <<"?">>
      [] text = SelectNamedText -> <<":key">>
      [] text = InsertText -> <<":id">>
      [] OTHER -> <<>>

\* sqlite3_bind_parameter_index: the index of the marker with exactly this
\* name, prefix included; 0 when there is none.  A `?` marker has no name.
ParameterIndex(markers, name) ==
    LET hits == {i \in 1..Len(markers) : markers[i] = name /\ name # "?"}
    IN  IF hits = {} THEN 0 ELSE CHOOSE i \in hits : \A j \in hits : i <= j

\* One sqlite3_bind_* call as libsql's local Statement::bind issues it: an
\* index outside the statement's markers is refused by the engine and the
\* refusal is not looked at.
BindValue(bound, i, v) ==
    IF i \in 1..Len(bound) THEN [bound EXCEPT ![i] = v] ELSE bound

RECURSIVE BindPositional(_, _, _)
BindPositional(bound, values, i) ==
    IF i > Len(values) THEN bound
    ELSE BindPositional(BindValue(bound, i, values[i]), values, i + 1)

RECURSIVE BindNamed(_, _, _, _)
BindNamed(bound, markers, pairs, i) ==
    IF i > Len(pairs) THEN bound
    ELSE BindNamed(BindValue(bound, ParameterIndex(markers, pairs[i][1]), pairs[i][2]),
                   markers, pairs, i + 1)

\* Statement::bind: a marker nothing was bound to stays NULL.
Bind(markers, np) ==
    LET unbound == [i \in 1..Len(markers) |-> NativeNull]
    IN  CASE np.shape = "None" -> unbound
          [] np.shape = "Positional" -> BindPositional(unbound, np.list, 1)
          [] np.shape = "Named" -> BindNamed(unbound, markers, np.list, 1)

\* The engine's `=`: NULL equals nothing; otherwise same storage class and
\* same content.
SqlEq(a, b) == a.kind # "Null" /\ b.kind # "Null" /\ a = b

\* The result columns of each row, in the rows' order.
SelectedRows(rows) == [i \in 1..Len(rows) |-> Selected(rows[i])]

\* Stepping the statement to completion against the table: the rows it
\* yields, in rowid order, and the table afterwards.
Stepped(rows, table) == [ok |-> TRUE, err |-> "-", rows |-> rows, db |-> table]
StepFailed(e, table) == [ok |-> FALSE, err |-> e, rows |-> <<>>, db |-> table]

EngineQuery(table, text, np) ==
    LET bound == Bind(Markers(text), np)
    IN  CASE text \in {SelectText, SelectNamedText} ->
                 Stepped(SelectedRows(SelectSeq(table,
                                            LAMBDA r : SqlEq(r.id, bound[1]))),
                         table)
          [] text = SelectAllText -> Stepped(SelectedRows(table), table)
          [] text \in {InsertPositionalText, InsertText} ->
                 IF bound[1].kind = "Null"
                 THEN StepFailed("NOT NULL constraint failed", table)
                 ELSE IF \E i \in 1..Len(table) : SqlEq(table[i].id, bound[1])
                 THEN StepFailed("UNIQUE constraint failed", table)
                 ELSE Stepped(<<>>, Append(table,
                          TableRow(bound[1], NativeText(JohnDoe),
                                   NativeInteger(<<0, 0, 0, 42>>))))
          [] OTHER -> StepFailed("syntax error", table)

\* ------------------------------------------- run with a lease in hand
\* A cursor that never advances.
NextRowStuck(rows, i) == rows[1]

\* rows.next() (store.rs:99): the i-th row of the cursor.
NextRow(rows, i) == rows[i]

\* A loop that leaves out the rows it cannot decode.
RECURSIVE RowsLoopSkipping(_, _, _)
RowsLoopSkipping(rows, i, decoded) ==
    IF i > Len(rows) THEN Ok(decoded)
    ELSE LET r == from_row(NextRow(rows, i))
         IN  RowsLoopSkipping(rows, i + 1,
                              IF r.ok THEN Push(decoded, r.val) ELSE decoded)

\* The loop of store.rs:98-101 from row i on.
RECURSIVE RowsLoop(_, _, _)
RowsLoop(rows, i, decoded) ==
    IF i > Len(rows) THEN Ok(decoded)
    ELSE LET r == from_row(NextRow(rows, i))
         IN  IF r.ok THEN RowsLoop(rows, i + 1, Push(decoded, r.val))
             ELSE Err(SqliteError(StepError("decode")))

\* What run returns to a lone caller of a pool without probe, for which
\* pool.get() succeeds (store.rs:95-103), and the table it leaves.
Ran(r, table, executed, stepped, rows) ==
    [r |-> r, db |-> table, executed |-> executed, stepped |-> stepped,
     rows |-> rows]

RunOn(table, q) ==
    LET np == to_params(q)
    IN  IF ~np.ok THEN Ran(Err(SqliteError(StepError("marshal"))), table, FALSE, FALSE, <<>>)
        ELSE LET e == EngineQuery(table, q.query, np.val)
             IN  IF ~e.ok
                 THEN Ran(Err(SqliteError(StepError("query"))), e.db, TRUE, FALSE, <<>>)
                 ELSE Ran(RowsLoop(e.rows, 1, <<>>), e.db, TRUE, TRUE, e.rows)

\* ---------------------------------------------------------- query harness
\* A lone caller builds a descriptor with sql! and runs it, again and again,
\* against a table with some rows.
RECURSIVE NoRepeats(_)
NoRepeats(q) ==
    \/ q = <<>>
    \/ /\ \A i \in 2..Len(q) : q[i] # q[1]
       /\ NoRepeats(Tail(q))
Tables == {tb \in SeqsUpTo({JohnRow, JaneRow, OddRow}, MaxTableRows) : NoRepeats(tb)}

ArgScalars ==
    {Scalar("Uuid", SampleUuid), Scalar("Uuid", TestId),
     Scalar("u64", SmallU64), Scalar("u64", LargeU64)}
CallNames == {"key", ":key"}
CallTexts == {SelectText, SelectNamedText, SelectAllText, InsertPositionalText}
Calls ==
    {Call("text", tx, <<>>) : tx \in CallTexts}
    \cup {Call("list", tx, a) :
            tx \in CallTexts,
            a \in SeqsUpTo({<<NoKey, sc>> : sc \in ArgScalars}, MaxParams)}
    \cup {Call("map", tx, a) :
            tx \in CallTexts,
            a \in SeqsUpTo({<<k, sc>> : k \in CallNames, sc \in ArgScalars}, MaxParams)}

QInit ==
    /\ test_on_check_out = FALSE
    /\ max_size = 1
    /\ PoolInit
    /\ target = HostTarget
    /\ ValueIdle
    /\ MigrateIdle
    /\ RngIdle
    /\ pnative = [set |-> FALSE]
    /\ pq = NoQuery
    /\ hcall \in Calls
    /\ db \in Tables
    /\ qret = [stage |-> "call"]
    /\ nruns = 0

\* The compiler expands the call.
QBuild ==
    /\ qret.stage = "call"
    /\ pq' = sql(hcall).q
    /\ qret' = [stage |-> IF sql(hcall).compiles THEN "built" ELSE "rejected"]
    /\ UNCHANGED <<hcall, db, nruns>>

\* #[derive(Clone)] on Param, Params and SqlQuery (sql/mod.rs:49, 90, 101):
\* a new value built field by field, element by element.
CloneParam(p) == Param(p.tag, [i \in 1..Len(p.v) |-> p.v[i]])

CloneParams(P) ==
    CASE P.shape = "None" -> ParamsNone
      [] P.shape = "Positional" ->
             ParamsPositional([i \in 1..Len(P.list) |-> CloneParam(P.list[i])])
      [] P.shape = "Named" ->
             ParamsNamed([i \in 1..Len(P.list) |->
                             <<P.list[i][1], CloneParam(P.list[i][2])>>])

Clone(q) == SqlQueryNew(q.query, CloneParams(q.params))

\* A descriptor that is used up by its run.
QueryAfterRunConsumed(q) == NoQuery

\* run borrows the descriptor (&self, store.rs:94).
QueryAfterRun(q) == q

\* query.run(&mut store).await
QRun ==
    /\ qret.stage \in {"built", "ran"}
    /\ nruns < MaxRuns
    /\ LET out == RunOn(db, pq)
       IN  /\ qret' = [stage |-> "ran", r |-> out.r, rows |-> out.rows,
                       executed |-> out.executed, stepped |-> out.stepped,
                       before |-> db, q |-> pq]
           /\ db' = out.db
    /\ pq' = QueryAfterRun(pq)
    /\ nruns' = nruns + 1
    /\ UNCHANGED hcall

QNext ==
    \/ QBuild /\ UNCHANGED <<poolVars, pnative, target, valueVars, migrateVars, rngVars>>
    \/ QRun /\ UNCHANGED <<poolVars, pnative, target, valueVars, migrateVars, rngVars>>

QuerySpec == QInit /\ [][QNext]_vars

\* -------------------------------------------------------- the migrator
\* MigrationError (migration.rs:33-41): each variant wraps, through #[from],
\* the error of one source type and carries it as it is.
MigrationError(cause) ==
    [variant |-> CASE cause.source = "libsql::Error" -> "ConnectionError"
                   [] cause.source = "LibsqlDirMigratorError" -> "DatabaseError",
     cause |-> cause]

\* The underlying errors: Database::connect's, and the directory migrator's
\* for the script it could not apply.
ConnectCause == [source |-> "libsql::Error", script |-> 0]
ScriptCause(id) == [source |-> "LibsqlDirMigratorError", script |-> id]

\* self.db.connect() (migration.rs:50); `opens` is whether the database can
\* be opened this time.
connect(opens) == IF opens THEN Ok("conn") ELSE Err(ConnectCause)

\* A script of the directory: its place in the directory's order, and
\* whether the engine executes its statements without error.
Script(id, good) == [id |-> id, good |-> good]

\* A migrator that keeps no account of what it executed.
NeverExecuted(database, id) == FALSE

\* The migration table says the script was executed to its end.
AlreadyExecuted(database, id) == id \in database.executed

\* What one pass of the directory migrator leaves: its result, the
\* database, and the scripts whose statements it ran, in order.
Migrated(r, database, ran) == [r |-> r, db |-> database, ran |-> ran]

\* libsql_migration::dir::migrate (called at migration.rs:51) from script
\* i on: a script recorded as executed is skipped; any other is recorded,
\* its statements are run, and it is marked executed; the first script that
\* fails ends the pass with its error.
RECURSIVE MigrateFrom(_, _, _, _)
MigrateFrom(database, dir, i, ran) ==
    IF i > Len(dir) THEN Migrated(Ok("unit"), database, ran)
    ELSE IF AlreadyExecuted(database, dir[i].id)
    THEN MigrateFrom(database, dir, i + 1, ran)
    ELSE LET noted == [database EXCEPT !.recorded = @ \cup {dir[i].id}]
         IN  IF dir[i].good
             THEN MigrateFrom([noted EXCEPT !.executed = @ \cup {dir[i].id},
                                            !.schema = Append(@, dir[i].id)],
                              dir, i + 1, Append(ran, dir[i].id))
             ELSE Migrated(Err(ScriptCause(dir[i].id)), noted,
                           Append(ran, dir[i].id))

migrate(database, dir) == MigrateFrom(database, dir, 1, <<>>)

\* An apply that takes the migrator's pass for a success whatever it says.
FromMigrateSwallowed(r) == Ok("unit")

\* `?` on the migrator's result, then Ok(()) (migration.rs:51-53).
FromMigrate(r) == IF r.ok THEN Ok("unit") ELSE Err(MigrationError(r.err))

\* Migrator::apply for SqliteMigrator (migration.rs:49-54): what it
\* returns, the database it leaves, and what its two steps gave.
Applied(r, database, conn, pass) ==
    [r |-> r, db |-> database, connect |-> conn, migrate |-> pass]

NotCalled == [called |-> FALSE]
Called(m) == [called |-> TRUE, r |-> m.r, ran |-> m.ran]

apply(database, dir, opens) ==
    LET conn == connect(opens)
    IN  IF ~conn.ok
        THEN Applied(Err(MigrationError(conn.err)), database, conn, NotCalled)
        ELSE LET m == migrate(database, dir)
             IN  Applied(FromMigrate(m.r), m.db, conn, Called(m))

\* The migration directories: up to MaxScripts scripts, in file order, each
\* one that the engine executes or one that it refuses.
Dirs ==
    {[i \in 1..n |-> Script(i, g[i])] :
        n \in 0..MaxScripts, g \in [1..MaxScripts -> BOOLEAN]}

MInit ==
    /\ test_on_check_out = FALSE
    /\ max_size = 1
    /\ PoolInit
    /\ target = HostTarget
    /\ MarshalIdle
    /\ ValueIdle
    /\ QueryIdle
    /\ RngIdle
    /\ mdir \in Dirs
    /\ mdb = FreshDatabase
    /\ mret = [stage |-> "idle", n |-> 0]

\* migrator.apply(path).await on the same directory and database.
Apply(opens) ==
    /\ mret.n < MaxApplies
    /\ LET a == apply(mdb, mdir, opens)
       IN  /\ mdb' = a.db
           /\ mret' = [stage |-> "returned", n |-> mret.n + 1, r |-> a.r,
                       connect |-> a.connect, migrate |-> a.migrate,
                       before |-> mdb]
    /\ UNCHANGED mdir

MNext ==
    \E opens \in BOOLEAN :
        Apply(opens)
            /\ UNCHANGED <<poolVars, pq, pnative, target, valueVars, queryVars,
                           rngVars>>

MigrateSpec == MInit /\ [][MNext]_vars

\* ------------------------------------------------------------- the dice
\* Outcome (roll.rs:13-19) with the dice it carries; a panic carries its
\* message instead.
Outcome(kind, rolls) == [kind |-> kind, rolls |-> rolls, msg |-> "-"]
Panic(msg) == [kind |-> "panic", rolls |-> <<>>, msg |-> msg]

\* A single-die check that takes every value outside 1..=5 for a six.
check_d6_rollLenient(roll) ==
    IF roll \in 1..3 THEN Outcome("Failure", <<roll>>)
    ELSE IF roll \in {4, 5} THEN Outcome("Partial", <<roll>>)
    ELSE Outcome("Success", <<roll>>)

\* check_d6_roll (roll.rs:48-55)
check_d6_roll(roll) ==
    IF roll \in 1..3 THEN Outcome("Failure", <<roll>>)
    ELSE IF roll \in {4, 5} THEN Outcome("Partial", <<roll>>)
    ELSE IF roll = 6 THEN Outcome("Success", <<roll>>)
    ELSE Panic("Invalid roll value")

\* The greatest of the dice.
max(rolls) ==
    CHOOSE m \in {rolls[i] : i \in 1..Len(rolls)} :
        \A i \in 1..Len(rolls) : rolls[i] <= m

\* Iterator::min (roll.rs:39): the least of the dice.
min(rolls) ==
    CHOOSE m \in {rolls[i] : i \in 1..Len(rolls)} :
        \A i \in 1..Len(rolls) : m <= rolls[i]

\* check_untrained_d6_roll (roll.rs:38-46): a panic inside check_d6_roll
\* unwinds through it.
check_untrained_d6_roll(rolls) ==
    LET outcome == check_d6_roll(min(rolls))
    IN  CASE outcome.kind = "Success" -> Outcome("Success", rolls)
          [] outcome.kind = "Partial" -> Outcome("Partial", rolls)
          [] outcome.kind = "Failure" -> Outcome("Failure", rolls)
          [] outcome.kind = "panic" -> outcome
          [] OTHER -> Panic("Invalid roll value")

\* One die put in its place among dice already in descending order.
RECURSIVE InsertDescending(_, _)
InsertDescending(x, sorted) ==
    IF sorted = <<>> THEN <<x>>
    ELSE IF x >= Head(sorted) THEN <<x>> \o sorted
    ELSE <<Head(sorted)>> \o InsertDescending(x, Tail(sorted))

\* A sort that leaves the dice as they were rolled.
Unsorted(rolls) == rolls

\* sorted.sort_unstable_by(|a, b| a.cmp(b).reverse()) (roll.rs:59): the dice
\* in descending order.
RECURSIVE SortDescending(_)
SortDescending(rolls) ==
    IF rolls = <<>> THEN <<>>
    ELSE InsertDescending(Head(rolls), SortDescending(Tail(rolls)))

\* check_d6_pool (roll.rs:57-69); the arms of the match are tried in order.
check_d6_pool(rolls) ==
    LET sorted == SortDescending(rolls)
        first == IF Len(sorted) >= 1 THEN sorted[1] ELSE 1
        second == IF Len(sorted) >= 2 THEN sorted[2] ELSE 1
    IN  IF first = 6 /\ second = 6 THEN Outcome("Critical", rolls)
        ELSE IF first \in 1..3 THEN Outcome("Failure", rolls)
        ELSE IF first \in {4, 5} THEN Outcome("Partial", rolls)
        ELSE IF first = 6 THEN Outcome("Success", rolls)
        ELSE Panic("Invalid roll value")

\* How many values try_roll asks the generator for (roll.rs:27-33,
\* dice.rs:53-59): two for an empty pool, else one per die of the pool.
DiceTaken(dice) == IF dice = 0 THEN 2 ELSE dice

\* Dice::roll (dice.rs:53-55): roll_pool(1)[0]
roll(taken) == taken[1]

\* DiceRoll::try_roll for D6 (roll.rs:26-36), `taken` being what the
\* generator's take hands to roll_pool (dice.rs:57-59).
try_roll(dice, taken) ==
    IF dice = 0 THEN check_untrained_d6_roll(taken)
    ELSE IF dice = 1 THEN check_d6_roll(roll(taken))
    ELSE check_d6_pool(taken)

\* The values a generator may yield: those of a u8 up to MaxFace, the faces
\* of the die and values that are no face of it.
Faces == 0..MaxFace

DInit ==
    /\ test_on_check_out = FALSE
    /\ max_size = 1
    /\ PoolInit
    /\ target = HostTarget
    /\ MarshalIdle
    /\ ValueIdle
    /\ QueryIdle
    /\ MigrateIdle
    /\ RngIdle

\* D6::new(rng).try_roll(pool) (roll.rs:96) with a generator that yields
\* `taken`.
TryRoll(dice, taken) ==
    /\ ~droll.rolled
    /\ droll' = [rolled |-> TRUE, pool |-> dice, rolls |-> taken,
                 out |-> try_roll(dice, taken)]
    /\ UNCHANGED <<cycle, clog>>

DNext ==
    \E dice \in 0..MaxPool :
        \E taken \in [1..DiceTaken(dice) -> Faces] :
            TryRoll(dice, taken)
                /\ UNCHANGED <<poolVars, pq, pnative, target, valueVars, queryVars,
                               migrateVars>>

DiceSpec == DInit /\ [][DNext]_vars

\* ------------------------------------------------ the Cycle generator
\* core::iter::Cycle over a sequence: the items and the position of the
\* item it yields next.
CycleOver(items) == [items |-> items, pos |-> 1]

\* Clone for Cycle<I> (I: Clone, test.rs:84): a second iterator at the same
\* position.
CloneCycle(c) == [items |-> c.items, pos |-> c.pos]

\* Iterator::next on a Cycle: the item at the position, and the iterator
\* moved on by one, wrapping round after the last item.
IteratorNext(c) ==
    [value |-> c.items[c.pos],
     iter |-> [c EXCEPT !.pos = (c.pos % Len(c.items)) + 1]]

\* Iterator::take(it, n).collect(): the next n items of `it`.
RECURSIVE IteratorTake(_, _)
IteratorTake(c, n) ==
    IF n = 0 THEN <<>>
    ELSE <<IteratorNext(c).value>> \o IteratorTake(IteratorNext(c).iter, n - 1)

\* Random::next for Cycle<I> (test.rs:86-88): Iterator::next on a clone of
\* self; self is not touched.
next(self) ==
    [out |-> <<IteratorNext(CloneCycle(self)).value>>, self |-> self]

\* Random::take for Cycle<I> (test.rs:90-92): Iterator::take on a clone of
\* self, collected; self is not touched.
take(self, n) ==
    [out |-> IteratorTake(CloneCycle(self), n), self |-> self]

\* The sequences a test cycles over.
CycleItems == {it \in SeqsUpTo(1..3, MaxItems) : it # <<>>}

CInit ==
    /\ test_on_check_out = FALSE
    /\ max_size = 1
    /\ PoolInit
    /\ target = HostTarget
    /\ MarshalIdle
    /\ ValueIdle
    /\ QueryIdle
    /\ MigrateIdle
    /\ droll = [rolled |-> FALSE]
    /\ cycle \in {CycleOver(it) : it \in CycleItems}
    /\ clog = <<>>

\* Random::next(&mut cycle)
CycleNext ==
    /\ Len(clog) < MaxCalls
    /\ cycle' = next(cycle).self
    /\ clog' = Append(clog, next(cycle).out)
    /\ UNCHANGED droll

\* Random::take(&mut cycle, n)
CycleTake(n) ==
    /\ Len(clog) < MaxCalls
    /\ cycle' = take(cycle, n).self
    /\ clog' = Append(clog, take(cycle, n).out)
    /\ UNCHANGED droll

CNext ==
    \/ CycleNext
           /\ UNCHANGED <<poolVars, pq, pnative, target, valueVars, queryVars,
                          migrateVars>>
    \/ \E n \in 0..MaxTake : CycleTake(n)
           /\ UNCHANGED <<poolVars, pq, pnative, target, valueVars, queryVars,
                          migrateVars>>

CycleSpec == CInit /\ [][CNext]_vars

\* ------------------------------------------------- conversion harness
\* A caller converts a native scalar into a Param (value.into()) and the
\* store marshals the Param (into_value), on any platform.
\* Integer samples of n limbs: the most significant limb at its edges, the
\* rest all zeros or all ones, so that zero, the signed minimum and maximum,
\* minus one and the unsigned maximum are among them.
EdgeLimbs == {0, LimbTop - 1, LimbTop, LimbBase - 1}
IntSamples(n) ==
    IF n = 1 THEN {<<x>> : x \in EdgeLimbs \cup {7}}
    ELSE {<<x>> \o Fill(n - 1, r) : x \in EdgeLimbs, r \in {0, LimbBase - 1}}
ByteSamples == {<<x>> : x \in {0, 7, ByteTop - 1, ByteTop, ByteBase - 1}}

\* 0.42f32 and 0.42f64 (sql/mod.rs:163-164) as the limbs of their bits.
F32Sample == <<16087, 2621>>
F64Sample == <<16346, 57671, 44564, 31457>>

ScalarSamples ==
    {Scalar("u8", v) : v \in ByteSamples} \cup {Scalar("i8", v) : v \in ByteSamples}
    \cup {Scalar("u16", v) : v \in IntSamples(1)} \cup {Scalar("i16", v) : v \in IntSamples(1)}
    \cup {Scalar("u32", v) : v \in IntSamples(2)} \cup {Scalar("i32", v) : v \in IntSamples(2)}
    \cup {Scalar("u64", v) : v \in IntSamples(4)} \cup {Scalar("i64", v) : v \in IntSamples(4)}
    \cup {Scalar("u128", v) : v \in IntSamples(8)} \cup {Scalar("i128", v) : v \in IntSamples(8)}
    \cup {Scalar("usize", v) : v \in IntSamples(target.ptrLimbs)}
    \cup {Scalar("isize", v) : v \in IntSamples(target.ptrLimbs)}
    \cup {Scalar("f32", F32Sample), Scalar("f64", F64Sample)}
    \cup {Scalar("String", JohnDoe), Scalar("&str", JohnDoe), Scalar("String", <<>>)}
    \cup {Scalar("Vec<u8>", <<>>), Scalar("Vec<u8>", <<1, 0, 255>>)}
    \cup {Scalar("Uuid", SampleUuid), Scalar("Uuid", TestId)}

VInit ==
    /\ test_on_check_out = FALSE
    /\ max_size = 1
    /\ PoolInit
    /\ MarshalIdle
    /\ QueryIdle
    /\ MigrateIdle
    /\ RngIdle
    /\ target \in Targets
    /\ hscalar = NoScalar
    /\ hparam = [set |-> FALSE]
    /\ hvalue = [set |-> FALSE]

\* The caller has a scalar in hand.
VScalar(sc) ==
    /\ hscalar' = sc
    /\ hparam' = [set |-> FALSE]
    /\ hvalue' = [set |-> FALSE]

\* value.into() (sql/mod.rs:26, 29)
VFrom ==
    /\ hscalar # NoScalar
    /\ ~hparam.set
    /\ hparam' = [set |-> TRUE, p |-> ParamFrom(hscalar)]
    /\ UNCHANGED <<hscalar, hvalue>>

\* The caller writes Param::Null (sql/mod.rs:52).
VNull ==
    /\ hscalar' = NoScalar
    /\ hparam' = [set |-> TRUE, p |-> Param("Null", <<>>)]
    /\ hvalue' = [set |-> FALSE]

\* param.into_value() on the borrowed Param (store.rs:78, 85).
VIntoValue ==
    /\ hparam.set
    /\ ~hvalue.set
    /\ hvalue' = [set |-> TRUE, r |-> into_value(hparam.p)]
    /\ UNCHANGED <<hscalar, hparam>>

VNext ==
    \/ \E sc \in ScalarSamples : VScalar(sc)
           /\ UNCHANGED <<poolVars, pq, pnative, target, queryVars, migrateVars, rngVars>>
    \/ VFrom /\ UNCHANGED <<poolVars, pq, pnative, target, queryVars, migrateVars, rngVars>>
    \/ VNull /\ UNCHANGED <<poolVars, pq, pnative, target, queryVars, migrateVars, rngVars>>
    \/ VIntoValue /\ UNCHANGED <<poolVars, pq, pnative, target, queryVars, migrateVars, rngVars>>

ValueSpec == VInit /\ [][VNext]_vars

\* ============================================================ properties
Holders(c) == {t \in Tasks : held[t] = c}
IdleSet == SeqToSet(pool.idle)
Owning == {t \in Tasks : held[t] # NoConn}
RunsInFlight == {t \in Tasks : pc[t] # "idle"}
\* The connections the pool counts as leased: open and not in the idle queue.
NumLeased == pool.num_conns - Len(pool.idle)

\* C1: in every reachable state each connection is held by at most one
\* in-flight run: a connection in the idle queue is held by nobody, a leased
\* connection is held by exactly one run that is in flight, and no connection
\* is ever held by two runs.
ExclusiveLease ==
    \A c \in ConnIds :
        /\ Cardinality(Holders(c)) <= 1
        /\ Holders(c) \subseteq RunsInFlight
        /\ c \in IdleSet => Holders(c) = {}
        /\ (connState[c] = "Leased") <=> (Cardinality(Holders(c)) = 1)
        /\ (connState[c] = "Idle") <=> (c \in IdleSet)
        /\ Cardinality({i \in 1..Len(pool.idle) : pool.idle[i] = c}) <= 1

\* Two runs execute at once, each on its own connection.
TwoLeasesAtOnce ==
    \E t1, t2 \in Tasks :
        /\ t1 # t2
        /\ pc[t1] = "querying" /\ pc[t2] = "fetching"
        /\ held[t1] # NoConn /\ held[t2] # NoConn /\ held[t1] # held[t2]

LeasedEqualsRunsInFlight == NumLeased = Cardinality(RunsInFlight)

\* C3 (amended): a run dropped at a suspension point holds nothing
\* afterwards and the connection it had leased is idle or discarded; in every
\* reachable state the connections counted as leased are exactly those owned
\* by runs in flight, so their number never exceeds the number of runs in
\* flight and is zero when no run is in flight.
NoLeakOnCancel ==
    /\ NumLeased = Cardinality(Owning)
    /\ Owning \subseteq RunsInFlight
    /\ NumLeased <= Cardinality(RunsInFlight)
    /\ \A t1, t2 \in Owning : held[t1] = held[t2] => t1 = t2
    /\ ret.kind = "Cancelled" =>
           /\ held[ret.task] = NoConn
           /\ ret.conn # NoConn =>
                  /\ connState[ret.conn] \in {"Idle", "Discarded"}
                  /\ Holders(ret.conn) = {}

\* A run that owned a connection has just been dropped while fetching rows.
CancelledWhileOwning ==
    /\ ret.kind = "Cancelled" /\ ret.conn # NoConn
    /\ connState[ret.conn] = "Idle"

Executing == {"leased", "querying", "fetching"}

ExcessCallersServedUnprobed ==
    /\ [](Cardinality(Owning) <= max_size /\ NumLeased <= max_size)
    /\ [](pool.num_conns + pool.pending_conns <= max_size)
    /\ \A t \in Tasks :
           (~test_on_check_out /\ pc[t] = "waiting" /\ NumLeased = max_size)
               ~> (pc[t] \in Executing \/ pc[t] = "idle")

\* A caller is suspended while the pool's whole capacity is leased.
ExcessCallerWaiting ==
    \E t \in Tasks :
        /\ pc[t] = "waiting" /\ NumLeased = max_size
        /\ Cardinality(Owning) = max_size

\* C5: with the probe on checkout enabled, a connection whose probe fails
\* is discarded and not handed out, and the caller whose probe failed is
\* handed the connection it checks out next.
SubstituteHandedOut ==
    [][\A t \in Tasks :
          (pc[t] = "probing" /\ pc'[t] \notin {"probing", "idle"}) =>
              /\ pc'[t] = "get" =>
                     /\ connState'[held[t]] = "Discarded"
                     /\ held'[t] = NoConn
              /\ probeFails[t] => pc'[t] = "leased"]_vars

\* C6: is_valid succeeds exactly when the connection responds to the probe
\* statement: Ok(()) for a responsive connection, an error only for one that
\* does not respond.
ProbeReflectsResponsiveness ==
    \A t \in Tasks :
        pc[t] = "probing" => \A r \in BOOLEAN : is_valid(r).ok <=> r

DistinctErrorVariants ==
    ret.kind = "Err" =>
        /\ ret.variant \in {"Connection", "LibSql", "Deserialization"}
        /\ (ret.failedStep = "lease") <=> (ret.variant = "Connection")
        /\ (ret.failedStep = "decode") <=> (ret.variant = "Deserialization")
        /\ ret.failedStep \in {"query", "fetch"} => ret.variant = "LibSql"

\* run has just returned a decoding failure as SqliteError::Deserialization.
DeserializationReturned ==
    /\ ret.kind = "Err" /\ ret.failedStep = "decode"
    /\ ret.variant = "Deserialization"

\* C9: one invocation of run makes at most one lease request and at most
\* one statement execution; a run that has obtained its lease never goes
\* back to ask for another; and a failed step ends the run at once with that
\* error, carrying no rows, after one lease request and no execution beyond
\* the one that failed.
NoRetryNoDefault ==
    /\ [](\A t \in Tasks : leaseReqs[t] <= 1 /\ execs[t] <= 1)
    /\ [](ret.kind = "Err" =>
              /\ pc[ret.task] = "idle"
              /\ ret.vals = <<>>
              /\ ret.leaseReqs = 1
              /\ ret.execs = (IF ret.failedStep \in {"lease", "marshal"} THEN 0 ELSE 1))
    /\ [][\A t \in Tasks :
              pc[t] \in Executing => pc'[t] \in Executing \cup {"idle"}]_vars

\* run has just returned a row-fetch error after its single execution.
FetchErrorReturned ==
    /\ ret.kind = "Err" /\ ret.failedStep = "fetch"
    /\ ret.leaseReqs = 1 /\ ret.execs = 1

\* C10: to_params gives the native shape of the same kind: None gives
\* native None; Positional gives native Positional of the same length whose
\* i-th element is the marshalled value of the i-th Param; Named gives
\* native Named of the same length whose i-th pair is the i-th name,
\* unchanged, with the marshalled value of its Param.  When an element does
\* not marshal, to_params returns the error instead.
Marshalled(p) == into_value(p).val
AllMarshal(P) ==
    \A i \in 1..Len(P.list) :
        into_value(IF P.shape = "Named" THEN P.list[i][2] ELSE P.list[i]).ok

SignedTags == {"I8", "I16", "I32", "I64"}
SmallIntTags == {"U8", "U16", "U32", "U64"} \cup SignedTags
WideTags == {"U128", "I128", "USize", "ISize"}
BitsOf(tag) ==
    CASE tag \in {"U8", "I8"} -> 8
      [] tag \in {"U16", "I16"} -> 16
      [] tag \in {"U32", "I32"} -> 32
      [] tag \in {"U64", "I64"} -> 64

\* The number a two's-complement payload denotes, as a sign and the limbs of
\* its magnitude (four limbs, most significant first).
Invert(limbs) == [i \in 1..Len(limbs) |-> (LimbBase - 1) - limbs[i]]
RECURSIVE PlusOne(_)
PlusOne(limbs) ==
    IF limbs = <<>> THEN <<>>
    ELSE LET n == Len(limbs)
         IN  IF limbs[n] = LimbBase - 1
             THEN PlusOne(SubSeq(limbs, 1, n - 1)) \o <<0>>
             ELSE SubSeq(limbs, 1, n - 1) \o <<limbs[n] + 1>>

NumericValue(limbs, signed, bits) ==
    LET top == IF bits = 8 THEN ByteTop ELSE LimbTop
        neg == signed /\ limbs[1] >= top
        mag == IF ~neg THEN limbs
               ELSE IF bits = 8 THEN <<ByteBase - limbs[1]>>
               ELSE PlusOne(Invert(limbs))
    IN  [neg |-> neg, mag |-> Fill(4 - Len(mag), 0) \o mag]

\* Whether a u64 payload is above i64::MAX.
AboveI64Max(p) == p.tag = "U64" /\ p.v[1] >= LimbTop

\* C11: every U8, U16, U32, U64, I8, I16, I32 or I64 Param, over its type's
\* full range, marshals successfully to a native integer denoting the same
\* number.
IntegersMarshalExactly ==
    (hvalue.set /\ hparam.p.tag \in SmallIntTags) =>
        LET p == hparam.p
            r == hvalue.r
        IN  /\ r.ok
            /\ r.val.kind = "Integer"
            /\ NumericValue(r.val.v, TRUE, 64)
                   = NumericValue(p.v, p.tag \in SignedTags, BitsOf(p.tag))

\* The same for every value the native integer can hold; a u64 above
\* i64::MAX does not marshal.
IntegersMarshalWithinI64 ==
    (hvalue.set /\ hparam.p.tag \in SmallIntTags) =>
        LET p == hparam.p
            r == hvalue.r
        IN  IF AboveI64Max(p) THEN ~r.ok
            ELSE /\ r.ok
                 /\ r.val.kind = "Integer"
                 /\ NumericValue(r.val.v, TRUE, 64)
                        = NumericValue(p.v, p.tag \in SignedTags, BitsOf(p.tag))

\* The greatest u64 has been marshalled.
U64MaxMarshalled ==
    /\ hvalue.set /\ hparam.p.tag = "U64"
    /\ hparam.p.v = Fill(4, LimbBase - 1)

\* from_ne_bytes: the limbs (most significant first) of the integer whose
\* bytes, in the platform's order, are given.
from_ne_bytes(bytes) ==
    LET n == Len(bytes) \div 2
    IN  IF target.endian = "little"
        THEN [i \in 1..n |-> bytes[2 * (n - i) + 2] * ByteBase + bytes[2 * (n - i) + 1]]
        ELSE [i \in 1..n |-> bytes[2 * i - 1] * ByteBase + bytes[2 * i]]

WidthInBytes(tag) == IF tag \in {"U128", "I128"} THEN 16 ELSE 2 * target.ptrLimbs

\* C12: every U128, I128, USize or ISize Param marshals to a native blob,
\* never a native integer, of the type's width (16 bytes for the 128-bit
\* tags, the pointer width for usize and isize), and decoding the blob in
\* the same byte order gives the Param's value back.
WideIntegersRoundTrip ==
    (hvalue.set /\ hparam.p.tag \in WideTags) =>
        LET p == hparam.p
            r == hvalue.r
        IN  /\ r.ok
            /\ r.val.kind = "Blob"
            /\ Len(r.val.v) = WidthInBytes(p.tag)
            /\ \A i \in 1..Len(r.val.v) : r.val.v[i] \in 0..(ByteBase - 1)
            /\ from_ne_bytes(r.val.v) = p.v

\* i128::MAX has been marshalled on a little-endian platform: its blob ends
\* with the byte 0x7f.
I128MaxMarshalledLittleEndian ==
    /\ hvalue.set /\ hparam.p.tag = "I128" /\ target.endian = "little"
    /\ hparam.p.v = <<LimbTop - 1>> \o Fill(7, LimbBase - 1)
    /\ hvalue.r.ok /\ hvalue.r.val.v[16] = ByteTop - 1

\* C13: Param::Uuid(u) marshals to a native blob of exactly 16 bytes, u's
\* raw bytes; Param::Null to native null; Param::String(s) to native text
\* equal to s; Param::Bytes(b) to a native blob equal to b; and marshalling
\* leaves the source Param as it was.
OpaqueValuesMarshal ==
    /\ [](hvalue.set =>
            LET p == hparam.p
                r == hvalue.r
            IN  /\ p.tag = "Uuid" =>
                       /\ r.ok /\ r.val.kind = "Blob"
                       /\ Len(r.val.v) = 16 /\ r.val.v = p.v /\ p.v = hscalar.v
                /\ p.tag = "Null" => (r.ok /\ r.val.kind = "Null")
                /\ p.tag = "String" =>
                       (r.ok /\ r.val.kind = "Text" /\ r.val.v = p.v)
                /\ p.tag = "Bytes" =>
                       (r.ok /\ r.val.kind = "Blob" /\ r.val.v = p.v))
    /\ [][(~hvalue.set /\ hvalue'.set) => hparam' = hparam]_vars

\* The identifier of the tests has been marshalled.
UuidMarshalled ==
    /\ hvalue.set /\ hparam.p.tag = "Uuid" /\ hparam.p.v = TestId
    /\ hvalue.r.ok /\ Len(hvalue.r.val.v) = 16

\* The Param tag named after each native type.
OwnTag ==
    {<<"u8", "U8">>, <<"u16", "U16">>, <<"u32", "U32">>, <<"u64", "U64">>,
     <<"u128", "U128">>, <<"usize", "USize">>, <<"i8", "I8">>, <<"i16", "I16">>,
     <<"i32", "I32">>, <<"i64", "I64">>, <<"i128", "I128">>, <<"isize", "ISize">>,
     <<"f32", "F32">>, <<"f64", "F64">>, <<"String", "String">>,
     <<"Vec<u8>", "Bytes">>, <<"Uuid", "Uuid">>}

\* C14: converting a native scalar into a Param always succeeds and gives
\* the tag of the scalar's own type carrying the same value; a string
\* literal and an owned String with the same characters convert to one and
\* the same Param::String.
ConversionKeepsTagAndValue ==
    (hparam.set /\ hscalar # NoScalar) =>
        /\ hparam.p.v = hscalar.v
        /\ hscalar.type # "&str" => <<hscalar.type, hparam.p.tag>> \in OwnTag
        /\ hscalar.type \in {"&str", "String"} =>
               hparam.p = Param("String", hscalar.v)

\* The literal "John Doe" has been converted.
LiteralConverted ==
    /\ hparam.set /\ hscalar = Scalar("&str", JohnDoe)
    /\ hparam.p.tag = "String"


\* The Param a native scalar converts to.
Converted(sc) ==
    Param(CHOOSE t \in {pr[2] : pr \in OwnTag} :
              <<IF sc.type = "&str" THEN "String" ELSE sc.type, t>> \in OwnTag,
          sc.v)

\* The query each form of sql! is to build: the text as given, and the
\* converted arguments in call order under the shape of the form.
Supplied(call) ==
    [query |-> call.text,
     params |->
        [shape |-> CASE call.form = "text" -> "None"
                     [] call.form = "list" -> "Positional"
                     [] call.form = "map" -> "Named",
         list |-> [i \in 1..Len(call.args) |->
                      IF call.form = "map"
                      THEN <<call.args[i][1], Converted(call.args[i][2])>>
                      ELSE Converted(call.args[i][2])]]]

\* C15: every call of sql!, whatever its form and however many arguments
\* it has (none included), builds a SqlQuery with the text supplied and the
\* params of its form holding the converted arguments in call order.
SqlBuildsSupplied ==
    qret.stage # "call" =>
        /\ qret.stage # "rejected"
        /\ pq = Supplied(hcall)

\* Every call other than the {key => value} form without pairs builds the
\* query supplied.
SqlBuildsSuppliedNonEmptyMap ==
    (qret.stage # "call" /\ ~(hcall.form = "map" /\ hcall.args = <<>>)) =>
        /\ qret.stage # "rejected"
        /\ pq = Supplied(hcall)

\* A list form without arguments has been built.
EmptyListBuilt ==
    /\ qret.stage = "built"
    /\ hcall.form = "list" /\ hcall.args = <<>>
    /\ pq.params = ParamsPositional(<<>>)


\* C16: a run that succeeds returns one decoded value per row the engine
\* yielded, in the engine's order: as many values as rows, the i-th value
\* the decoding of the i-th row; a statement that yields no rows returns
\* the empty sequence and no error.
RunReturnsRowsInOrder ==
    qret.stage = "ran" =>
        /\ qret.r.ok =>
              /\ qret.stepped
              /\ Len(qret.r.val) = Len(qret.rows)
              /\ \A i \in 1..Len(qret.rows) :
                     /\ from_row(qret.rows[i]).ok
                     /\ qret.r.val[i] = from_row(qret.rows[i]).val
        /\ (qret.stepped /\ qret.rows = <<>>) => qret.r = Ok(<<>>)

\* A run has returned two different decoded rows.
TwoRowsReturned ==
    /\ qret.stage = "ran" /\ qret.r.ok
    /\ Len(qret.r.val) = 2
    /\ qret.r.val[1] # qret.r.val[2]


\* The stored column holds the value of Param v: v has a native form and
\* the column holds it.
Holds(column, v) ==
    /\ into_value(v).ok
    /\ column = into_value(v).val
    /\ column.kind # "Null"

\* The rows of a table whose id column holds v.
RowsHolding(table, v) == {i \in 1..Len(table) : Holds(table[i].id, v)}

\* C17: a SELECT with one positional placeholder, called with the one value
\* v, run against a table in which exactly one row holds v in the compared
\* column (whatever other rows there are), returns exactly one decoded row,
\* whose fields are the selected columns of that stored row.  The stored
\* row is one whose selected columns decode into the row type.
PositionalSelectReturnsTheRow ==
    (/\ qret.stage = "ran"
     /\ hcall.form = "list" /\ hcall.text = SelectText /\ Len(hcall.args) = 1
     /\ Cardinality(RowsHolding(qret.before, Converted(hcall.args[1][2]))) = 1) =>
        LET i == CHOOSE j \in RowsHolding(qret.before, Converted(hcall.args[1][2])) : TRUE
            stored == qret.before[i]
        IN  from_row(Selected(stored)).ok =>
                /\ qret.r.ok
                /\ Len(qret.r.val) = 1
                /\ qret.r.val[1].name = stored.name.v
                /\ qret.r.val[1].age = SubSeq(stored.age.v, 3, 4)

\* The row of John Doe has been selected by its id out of a table of two
\* rows.
JohnSelectedByPosition ==
    /\ qret.stage = "ran"
    /\ hcall = Call("list", SelectText, <<<<NoKey, Scalar("Uuid", SampleUuid)>>>>)
    /\ Len(qret.before) = 2
    /\ qret.r.ok /\ Len(qret.r.val) = 1
    /\ qret.r.val[1].name = JohnDoe


\* The run of a call sql!(text with marker :key, {name => id}) against a
\* table in which exactly one row holds id, that row decodable.
NamedSelectOfStoredId(name) ==
    /\ qret.stage = "ran"
    /\ hcall.form = "map" /\ hcall.text = SelectNamedText
    /\ Len(hcall.args) = 1 /\ hcall.args[1][1] = name
    /\ hcall.args[1][2].type = "Uuid"
    /\ Cardinality(RowsHolding(qret.before, Converted(hcall.args[1][2]))) = 1
    /\ \A i \in RowsHolding(qret.before, Converted(hcall.args[1][2])) :
           from_row(Selected(qret.before[i])).ok

\* C18: a query built as sql!(text with marker :key, {"key" => id}), run
\* against a table holding exactly one row with the identifier id, returns
\* exactly one row.
NamedSelectReturnsTheRow ==
    NamedSelectOfStoredId("key") => (qret.r.ok /\ Len(qret.r.val) = 1)

\* The same call with the key written as the marker is, prefix included,
\* returns exactly one row.
PrefixedNameSelectsTheRow ==
    NamedSelectOfStoredId(":key") => (qret.r.ok /\ Len(qret.r.val) = 1)

\* With the key written without the prefix the run succeeds with no row.
UnprefixedNameSelectsNothing ==
    NamedSelectOfStoredId("key") => qret.r = Ok(<<>>)


\* The params of a query do not fit the markers of its text: too few or
\* too many values, positional values for a named marker, or named values
\* for a positional marker.
Mismatch(q) ==
    LET markers == Markers(q.query)
        given == IF q.params.shape = "None" THEN 0 ELSE Len(q.params.list)
    IN  \/ given < Len(markers)
        \/ given > Len(markers)
        \/ /\ q.params.shape = "Positional"
           /\ \E i \in 1..Len(markers) : markers[i] # "?"
        \/ /\ q.params.shape = "Named"
           /\ \E i \in 1..Len(markers) : markers[i] = "?"

\* C19: a run of a query whose params do not fit the markers of its text
\* returns SqliteError::LibSql from the engine: the misfit is not found
\* before the engine is invoked, and the run never succeeds.
MismatchIsBackendError ==
    (qret.stage = "ran" /\ Mismatch(qret.q)) =>
        /\ ~qret.r.ok
        /\ qret.r.err = SqliteError("libsql::Error")
        /\ AllMarshal(qret.q.params) => qret.executed

\* Nothing looks at the fit before the engine is invoked: a query whose
\* values all marshal reaches the engine, fitting or not.
MismatchReachesEngine ==
    (qret.stage = "ran" /\ Mismatch(qret.q) /\ AllMarshal(qret.q.params)) => qret.executed

\* The misfits the engine does refuse are those that leave the id of an
\* INSERT without a value.
InsertWithoutIdIsBackendError ==
    (/\ qret.stage = "ran"
     /\ qret.q.query = InsertPositionalText
     /\ qret.q.params.shape # "Positional" \/ qret.q.params.list = <<>>) =>
        qret.r = Err(SqliteError("libsql::Error"))


NoPartialRows ==
    (qret.stage = "ran" /\ qret.stepped) =>
        LET bad == {i \in 1..Len(qret.rows) : ~from_row(qret.rows[i]).ok}
        IN  /\ bad # {} =>
                  /\ ~qret.r.ok
                  /\ qret.r.err = SqliteError("SerdeError")
                  /\ qret.r.val = <<>>
            /\ qret.r.ok => (bad = {} /\ Len(qret.r.val) = Len(qret.rows))

\* The second of two rows did not decode, the first did.
SecondRowUndecodable ==
    /\ qret.stage = "ran" /\ qret.stepped
    /\ Len(qret.rows) = 2
    /\ from_row(qret.rows[1]).ok /\ ~from_row(qret.rows[2]).ok
    /\ ~qret.r.ok


\* The dice of the last roll all show a face of the die.
AllFaces == \A i \in 1..Len(droll.rolls) : droll.rolls[i] \in 1..6

\* C24: with every die in 1..=6 and a pool of at least one, try_roll is
\* Critical exactly when the pool has two dice or more and at least two
\* show 6; otherwise Success when the highest die is 6, Partial when it is
\* 4 or 5, Failure when it is 1, 2 or 3; the Outcome carries the pool's
\* dice as rolled, in roll order.
PoolClassifiedByHighest ==
    (droll.rolled /\ droll.pool >= 1 /\ AllFaces) =>
        LET sixes == Cardinality({i \in 1..Len(droll.rolls) : droll.rolls[i] = 6})
            high == max(droll.rolls)
        IN  /\ Len(droll.rolls) = droll.pool
            /\ droll.out.rolls = droll.rolls
            /\ droll.out.kind =
                   IF droll.pool >= 2 /\ sixes >= 2 THEN "Critical"
                   ELSE IF high = 6 THEN "Success"
                   ELSE IF high \in {4, 5} THEN "Partial"
                   ELSE "Failure"

\* A pool of three has rolled 6, 2, 6: Critical, the dice in roll order.
CriticalRolledUnsorted ==
    /\ droll.rolled /\ droll.pool = 3
    /\ droll.rolls = <<6, 2, 6>>
    /\ droll.out = Outcome("Critical", <<6, 2, 6>>)

\* C25: with every die in 1..=6, try_roll(0) rolls two dice and classifies
\* by the lower of them: 6 Success, 4 or 5 Partial, 1 to 3 Failure; it is
\* never Critical, two sixes included, and the Outcome carries both dice in
\* roll order.
UntrainedClassifiedByLowest ==
    (droll.rolled /\ droll.pool = 0 /\ AllFaces) =>
        LET low == IF droll.rolls[1] <= droll.rolls[2]
                   THEN droll.rolls[1] ELSE droll.rolls[2]
        IN  /\ Len(droll.rolls) = 2
            /\ droll.out.rolls = droll.rolls
            /\ droll.out.kind # "Critical"
            /\ droll.out.kind =
                   IF low = 6 THEN "Success"
                   ELSE IF low \in {4, 5} THEN "Partial"
                   ELSE "Failure"

\* An empty pool has rolled two sixes: Success.
UntrainedDoubleSix ==
    /\ droll.rolled /\ droll.pool = 0
    /\ droll.rolls = <<6, 6>>
    /\ droll.out.kind = "Success"

\* The die that decides a roll: the lowest for an empty pool, else the
\* highest (for a pool of one, the die).
Deciding == IF droll.pool = 0 THEN min(droll.rolls) ELSE max(droll.rolls)

\* C30: when the deciding die is no face of the die (0, or 7 and above),
\* try_roll returns no Outcome: it panics with "Invalid roll value", for an
\* empty pool, a pool of one and a larger pool alike.
InvalidDiePanics ==
    (droll.rolled /\ Deciding \notin 1..6) =>
        /\ droll.out.kind = "panic"
        /\ droll.out.msg = "Invalid roll value"
        /\ droll.out.rolls = <<>>

\* A pool of two has rolled 7 and 3 and panicked.
SevenInPoolPanicked ==
    /\ droll.rolled /\ droll.pool = 2
    /\ droll.rolls = <<3, 7>>
    /\ droll.out.kind = "panic"


\* Everything the calls so far have returned, one call after the other.
RECURSIVE Flattened(_)
Flattened(log) ==
    IF log = <<>> THEN <<>> ELSE Head(log) \o Flattened(Tail(log))

\* The k-th item of the endless repetition of the cycled sequence.
Repeated(k) == cycle.items[((k - 1) % Len(cycle.items)) + 1]

\* C26: the generator advances across calls: each call goes on from the
\* item after the last one the call before returned, so that the returns
\* of the calls, put end to end, are the cycled sequence repeated (over
\* [1, 2, 3]: next gives 1 and take(5) then gives [2, 3, 1, 2, 3]).
CycleAdvancesAcrossCalls ==
    \A k \in 1..Len(Flattened(clog)) : Flattened(clog)[k] = Repeated(k)

\* Every call returns the sequence from its first item on, whatever was
\* called before.
CycleRestartsEachCall ==
    \A i \in 1..Len(clog) : \A k \in 1..Len(clog[i]) : clog[i][k] = Repeated(k)

\* Over [1, 2, 3], next and then take(5) return 1 and [1, 2, 3, 1, 2].
DocExampleRestarts ==
    (cycle.items = <<1, 2, 3>> /\ Len(clog) = 2
        /\ Len(clog[1]) = 1 /\ Len(clog[2]) = 5) =>
        clog = << <<1>>, <<1, 2, 3, 1, 2>> >>


\* The ids of the directory's scripts.
DirIds == {mdir[i].id : i \in 1..Len(mdir)}

\* No script's statements are in the schema twice.
NoScriptTwice(schema) ==
    \A i, j \in 1..Len(schema) : schema[i] = schema[j] => i = j

\* C22: applying the same directory again to the same database leaves the
\* schema as one apply left it: an apply to a database that already has all
\* the directory's scripts runs no script, changes nothing and, the
\* connection given, succeeds; and no apply ever changes what an earlier
\* one put in place or runs a script's statements a second time.
ApplyIdempotent ==
    mret.stage = "returned" =>
        /\ DirIds \subseteq mret.before.executed =>
              /\ mdb = mret.before
              /\ mret.migrate.called => mret.migrate.ran = <<>>
              /\ mret.connect.ok => mret.r.ok
        /\ NoScriptTwice(mdb.schema)
        /\ mret.before.executed \subseteq mdb.executed
        /\ SubSeq(mdb.schema, 1, Len(mret.before.schema)) = mret.before.schema

\* A directory of two scripts or more has been applied a second time to the
\* database a first apply had migrated in full.
AppliedTwice ==
    /\ mret.stage = "returned" /\ mret.n = 2
    /\ Len(mdir) >= 2
    /\ DirIds \subseteq mret.before.executed
    /\ mret.r.ok /\ mret.migrate.called
    /\ Len(mdb.schema) = Len(mdir)

\* C23: apply returns Ok(()) only when the connection was opened and every
\* pending script was applied without error; a connection that cannot be
\* opened comes back as MigrationError::ConnectionError and a script that
\* cannot be applied as MigrationError::DatabaseError, each carrying the
\* error of the failed step as it was; after a failed step apply never
\* returns Ok.
ApplyReportsFailures ==
    mret.stage = "returned" =>
        /\ mret.r.ok =>
              /\ mret.connect.ok
              /\ mret.migrate.called /\ mret.migrate.r.ok
              /\ DirIds \subseteq mdb.executed
        /\ ~mret.connect.ok =>
              /\ mret.r = Err([variant |-> "ConnectionError",
                               cause |-> mret.connect.err])
              /\ ~mret.migrate.called
              /\ mdb = mret.before
        /\ (mret.migrate.called /\ ~mret.migrate.r.ok) =>
              /\ mret.r = Err([variant |-> "DatabaseError",
                               cause |-> mret.migrate.r.err])
              /\ mret.r.err.cause.script \in DirIds
              /\ ~mdir[mret.r.err.cause.script].good

\* The second script of a directory could not be applied, the first was.
SecondScriptFailed ==
    /\ mret.stage = "returned" /\ ~mret.r.ok
    /\ mret.r.err.variant = "DatabaseError"
    /\ mret.r.err.cause.script = 2
    /\ mdb.schema = <<1>>


\* C28: run leases before it marshals.  A run whose marshalling fails had
\* its lease, returns SqliteError::LibSql without having called the engine,
\* and its connection is back in the pool; a run whose lease fails has read
\* no parameter and called no engine.
LeaseBeforeMarshal ==
    /\ [](ret.failedStep = "marshal" =>
             /\ ret.kind = "Err" /\ ret.variant = SqliteError("libsql::Error")
             /\ ret.execs = 0 /\ ret.leaseReqs = 1
             /\ ret.conn # NoConn
             /\ connState[ret.conn] = "Idle"
             /\ ret.conn \in IdleSet
             /\ Holders(ret.conn) = {})
    /\ [](ret.failedStep = "lease" =>
             /\ ret.kind = "Err" /\ ret.variant = SqliteError("RunError")
             /\ ret.execs = 0)
    /\ [][\A t \in Tasks :
             /\ (ret'.task = t /\ ret'.failedStep = "marshal") =>
                    (pc[t] = "leased" /\ held[t] # NoConn /\ execs[t] = 0)
             /\ execs'[t] > execs[t] => (pc[t] = "leased" /\ held[t] # NoConn)
             /\ query'[t] # query[t] => (pc[t] = "leased" \/ pc'[t] = "idle")
             /\ (ret'.task = t /\ ret'.failedStep = "lease") =>
                    /\ pc[t] \in {"get", "waiting", "probing"}
                    /\ query[t] = NoQuery /\ execs[t] = 0]_vars

\* A run's marshalling has failed and its connection is idle again.
MarshalErrorReturned ==
    /\ ret.failedStep = "marshal"
    /\ ret.conn # NoConn /\ connState[ret.conn] = "Idle"


\* The connections that are open: opened and not discarded.
OpenConns == {c \in ConnIds : connState[c] \in {"Idle", "Leased"}}

\* C29: a run holds at most one lease and asks for no connection while it
\* holds one, so runs do not deadlock on the pool: with engine calls that
\* end and a pool that serves its getters fairly, every run returns, with
\* Ok or with an error, and once no run is in flight every open connection
\* is idle.
RunsReturnAndPoolDrains ==
    /\ [](\A t \in Tasks :
             /\ leaseReqs[t] <= 1
             /\ pc[t] \in {"get", "waiting"} => held[t] = NoConn
             /\ pc[t] \in Executing => held[t] # NoConn)
    /\ [][\A t \in Tasks : leaseReqs'[t] > leaseReqs[t] => held[t] = NoConn]_vars
    /\ \A t \in Tasks : (pc[t] # "idle") ~> (pc[t] = "idle")
    /\ [](RunsInFlight = {} =>
             /\ NumLeased = 0
             /\ \A c \in OpenConns : connState[c] = "Idle" /\ c \in IdleSet
             /\ Len(pool.idle) = Cardinality(OpenConns))

\* Every run has returned and the pool's whole capacity, two connections or
\* more, sits idle.
PoolDrained ==
    /\ RunsInFlight = {}
    /\ ret.kind = "Ok"
    /\ Cardinality(OpenConns) >= 2
    /\ Len(pool.idle) = Cardinality(OpenConns)


\* C21: a run suspended on its lease or on engine I/O does not keep the
\* other runs from progressing: a run that asks for its lease while another
\* is suspended, and for which the pool had a connection, idle or newly
\* opened, leases it; its request does not end in an error.
SuspendedRunsDoNotBlock ==
    \A u \in Tasks :
        (/\ ret.task = u /\ ret.kind = "Err" /\ ret.failedStep = "lease"
         /\ \E t \in Tasks \ {u} : Suspended(t))
            => ~ret.probeFails

\* With the probe on checkout switched off: while one run's engine call stays
\* unresolved for ever, a run that asks for its lease when a connection is
\* idle goes on to hold a lease (or is dropped or timed out first), and a
\* run that holds one goes on to return.
StalledRunDoesNotBlockUnprobed ==
    \A u \in Tasks \ {Stalled} :
        /\ (/\ ~test_on_check_out
            /\ pc[Stalled] \in {"querying", "fetching"}
            /\ pc[u] = "get" /\ pool.idle # <<>>)
               ~> (pc[u] \in Executing \/ pc[u] = "idle")
        /\ (pc[Stalled] \in {"querying", "fetching"} /\ pc[u] \in Executing)
               ~> (pc[u] = "idle")

\* A run returns Ok while another run is still suspended in the engine.
ReturnedBesideSuspended ==
    /\ ~test_on_check_out
    /\ ret.kind = "Ok" /\ ret.task # Stalled
    /\ pc[Stalled] \in {"querying", "fetching"}


====
